---- MODULE Spec2Model ----
(***************************************************************************)
(* Silent-Byte: the room/session coordination layer of the signaling       *)
(* server.  RoomManager (src/server/roomManager.js) keeps the rooms in a   *)
(* Map and syncs them to a MongoDB collection; registerHandlers            *)
(* (src/unnamed/part_000) routes the socket.io events to it.               *)
(*                                                                         *)
(* Every async handler runs in two steps: the synchronous part up to the   *)
(* `await this._syncToDB(roomCode)` (validation, timer cancellation, the   *)
(* mutation of the room, the issue of the store write), and the            *)
(* continuation that runs once the store write has completed (reading the  *)
(* result, socket.join, the emits, the acknowledgment).  Other handlers    *)
(* run between the two.  A handler that returns before any store write     *)
(* (invalid code, room not found, leave of an absent room) resumes in a    *)
(* microtask, before any other event is dispatched: it is one step.        *)
(***************************************************************************)
EXTENDS Naturals, Sequences, FiniteSets, TLC

\* ------------------------------------------------------------------ bounds

\* The connections, each with the socket id the transport gave it.  The
\* 'connection' handler only registers the handlers below, so a connection
\* that has sent nothing is as good as one not yet made: all are open at
\* the start.
NumSockets == 2
\* Handlers suspended at their store write at the same time.
MaxPending == 2

SocketIds == 1..NumSockets
NoSocket == 0

\* ------------------------------------------------------------- room codes

Upper == {"A","B","C","D","E","F","G","H","I","J","K","L","M",
          "N","O","P","Q","R","S","T","U","V","W","X","Y","Z"}
Lower == {"a","b","c","d","e","f","g","h","i","j","k","l","m",
          "n","o","p","q","r","s","t","u","v","w","x","y","z"}
Digit == {"0","1","2","3","4","5","6","7","8","9"}

\* A room code is the sequence of its characters.
GoodCode == <<"A","B","1","2","C","3">>
ShortCode == <<"A","B","1","2","C">>
NoCode == <<>>
\* The codes the clients send: one well-formed, one malformed.
RoomCodes == {GoodCode, ShortCode}

\* A regular expression without the {6} quantifier.
ValidCodeAnyLength(roomCode) ==
    /\ Len(roomCode) >= 1
    /\ \A i \in 1..Len(roomCode) : roomCode[i] \in Upper \cup Lower \cup Digit

\* /^[A-Za-z0-9]{6}$/.test(roomCode)
ValidCode(roomCode) ==
    /\ Len(roomCode) = 6
    /\ \A i \in 1..Len(roomCode) : roomCode[i] \in Upper \cup Lower \cup Digit

\* The roles of a room.
Roles == {"user1", "user2"}
NoRole == ""

\* Roles a rejoin-room message may carry besides: the text null, and the
\* JSON value null.
NullRole == "(null)"
OddRoles == {"null", NullRole}

\* ------------------------------------------------------- arrays and the Map

\* users.find(u => u.role === role): the index of the first match, 0 if none.
FindRole(users, role) ==
    IF \E i \in 1..Len(users) : users[i].role = role
    THEN CHOOSE i \in 1..Len(users) :
            /\ users[i].role = role
            /\ \A j \in 1..(i - 1) : users[j].role # role
    ELSE 0

\* users.find(u => u.socketId === socketId)
FindSocket(users, socketId) ==
    IF \E i \in 1..Len(users) : users[i].socketId = socketId
    THEN CHOOSE i \in 1..Len(users) :
            /\ users[i].socketId = socketId
            /\ \A j \in 1..(i - 1) : users[j].socketId # socketId
    ELSE 0

\* The socket id found for a role, NoSocket for undefined.
SocketOfRole(users, role) ==
    IF FindRole(users, role) = 0 THEN NoSocket
    ELSE users[FindRole(users, role)].socketId

\* The rooms Map, in insertion order: a sequence of {roomCode, users}.
MapIndex(map, roomCode) ==
    IF \E i \in 1..Len(map) : map[i].roomCode = roomCode
    THEN CHOOSE i \in 1..Len(map) : map[i].roomCode = roomCode
    ELSE 0

MapHas(map, roomCode) == MapIndex(map, roomCode) # 0

\* rooms.get(roomCode).users
MapUsers(map, roomCode) == map[MapIndex(map, roomCode)].users

\* rooms.set(roomCode, {roomCode, users}) for a new key, and the in-place
\* mutation of the room object for a key that is present.
MapSet(map, roomCode, users) ==
    IF MapHas(map, roomCode)
    THEN [map EXCEPT ![MapIndex(map, roomCode)].users = users]
    ELSE Append(map, [roomCode |-> roomCode, users |-> users])

\* rooms.delete(roomCode)
MapDelete(map, roomCode) == SelectSeq(map, LAMBDA r : r.roomCode # roomCode)

MapKeys(map) == {map[i].roomCode : i \in 1..Len(map)}

\* ------------------------------------------------------------------- state

VARIABLES
    conn,              \* socket id -> "open" | "closed"
    subs,              \* socket id -> the broadcast groups socket.join put it in
    rooms,             \* RoomManager.rooms
    disconnectTimers,  \* RoomManager.disconnectTimers: <<roomCode, role>> -> timer
    timeouts,          \* the Timeout objects of setTimeout, named by the socket
                       \* id their callback captured: roomCode, role and
                       \* state ("none" | "armed" | "cleared" | "fired")
    pending,           \* the handlers suspended at their store write, oldest first
    store,             \* the rooms collection: roomCode -> users
    onRemovedCalls,    \* socket id -> how often its onRemoved callback ran
    last,              \* the step taken last and what it sent
    signaling,         \* the fields of one SignalingClient
    browser,           \* its page and its socket.io socket
    emitted,           \* what the client's step taken last sent and emitted
    peer,              \* the fields of one PeerManager
    links,             \* the RTCPeerConnections created, each with its channel
    setups,            \* the setup() calls suspended at their await
    iceRestarts,       \* the links with an _attemptIceRestart() suspended
    tally,             \* send() calls, payloads handed over, links created
    wire               \* rejoin-room and restart-webrtc messages in flight

serverVars == <<conn, subs, rooms, disconnectTimers, timeouts, pending, store,
                onRemovedCalls, last>>

peerVars == <<peer, links, setups, iceRestarts, tally>>

clientVars == <<signaling, browser, emitted, peerVars, wire>>

vars == <<serverVars, clientVars>>

\* The key `${roomCode}:${role}`.  No code or role of the model holds a ':',
\* so the pair names the key.
\* `${role}`: a role that is null is written as the text null.
RoleText(role) == IF role = NullRole THEN "null" ELSE role

\* `${roomCode}:${role}`, the key of the disconnectTimers Map.
TimerKey(roomCode, role) == roomCode \o <<":", RoleText(role)>>

\* What a step reports: the event handled, its arguments, the acknowledgment
\* passed to cb, and the messages emitted.
Report(step, roomCode, socketId, role, ack, emits) ==
    [step |-> step, roomCode |-> roomCode, socketId |-> socketId,
     role |-> role, ack |-> ack, emits |-> emits, detached |-> FALSE]

\* io.to(socketId).emit(event): every socket is in the group of its own id.
EmitToSocket(event, socketId, connNow) ==
    [event |-> event, toSocket |-> socketId, toRoom |-> NoCode,
     rcpt |-> {s \in SocketIds : s = socketId /\ connNow[s] = "open"}]

\* io.to(roomCode).emit(event), io.in(roomCode).emit(event)
EmitToRoom(event, roomCode, connNow, subsNow) ==
    [event |-> event, toSocket |-> NoSocket, toRoom |-> roomCode,
     rcpt |-> {s \in SocketIds : connNow[s] = "open" /\ roomCode \in subsNow[s]}]

\* The report of a step that acknowledges and emits nothing.
Quiet == Report("", NoCode, NoSocket, NoRole, "none", {})

NoTimeout == [roomCode |-> NoCode, role |-> NoRole, state |-> "none"]

\* Map.set and Map.delete of a Map kept as a function.
FnSet(f, k, v) == [x \in (DOMAIN f) \cup {k} |-> IF x = k THEN v ELSE f[x]]
FnDelete(f, k) == [x \in (DOMAIN f) \ {k} |-> f[x]]

\* new SignalingClient(roomCode, role)
NewSignalingClient(role) ==
    [role |-> role, state |-> "disconnected", heartbeatInterval |-> FALSE,
     reconnectTimer |-> FALSE, reconnectAttempts |-> 0]

\* The page, reloaded or not, before connect(): no socket yet.
NewPage(reloaded) ==
    [reloaded |-> reloaded, socket |-> FALSE, connected |-> FALSE,
     onceConnect |-> FALSE, awaitingAck |-> FALSE, closedByClient |-> FALSE]

\* A client step that sends no message and emits no event.
Nothing == [sent |-> <<>>, events |-> <<>>, failed |-> 0]

\* The server after construction: no room, no timer, no write in flight.
ServerIdle ==
    /\ conn = [s \in SocketIds |-> "open"]
    /\ subs = [s \in SocketIds |-> {}]
    /\ rooms = <<>>
    /\ disconnectTimers = <<>>
    /\ timeouts = [s \in SocketIds |-> NoTimeout]
    /\ pending = <<>>
    /\ store = <<>>
    /\ onRemovedCalls = [s \in SocketIds |-> 0]
    /\ last = Quiet

\* new PeerManager(signaling, roomCode, role)
NewPeerManager ==
    [peerConnection |-> 0, dataChannel |-> 0, retryQueue |-> <<>>,
     retryInterval |-> FALSE, hasEverConnected |-> FALSE]

\* The link controller after construction: no link, no setup() under way.
PeerIdle ==
    /\ peer = NewPeerManager
    /\ links = <<>>
    /\ setups = 0
    /\ iceRestarts = {}
    /\ tally = [sends |-> 0, delivered |-> <<>>, created |-> 0, stale |-> 0,
                errors |-> 0]

\* No message in flight.
NoTraffic ==
    [rejoin |-> [s \in SocketIds |-> 0], restart |-> [s \in SocketIds |-> 0]]

Init ==
    /\ ServerIdle
    /\ signaling = NewSignalingClient("user1")
    /\ browser = NewPage(FALSE)
    /\ emitted = Nothing
    /\ PeerIdle
    /\ wire = NoTraffic

\* ------------------------------------------------------------- RoomManager

\* A cancellation that forgets the timer handle and leaves the timeout armed.
CancelForgetsClearTimeout(roomCode, role) ==
    [disconnectTimers |-> FnDelete(disconnectTimers, TimerKey(roomCode, role)),
     timeouts |-> timeouts]

\* A cancellation that clears the timeout and keeps its handle in the Map.
CancelKeepsHandle(roomCode, role) ==
    IF TimerKey(roomCode, role) \in DOMAIN disconnectTimers
    THEN [disconnectTimers |-> disconnectTimers,
          timeouts |->
              [timeouts EXCEPT
                  ![disconnectTimers[TimerKey(roomCode, role)]].state = "cleared"]]
    ELSE [disconnectTimers |-> disconnectTimers, timeouts |-> timeouts]

\* _cancelDisconnectTimer(roomCode, role): the timers Map and the timeouts
\* after it.
CancelDisconnectTimer(roomCode, role) ==
    IF TimerKey(roomCode, role) \in DOMAIN disconnectTimers
    THEN [disconnectTimers |->
              FnDelete(disconnectTimers, TimerKey(roomCode, role)),
          timeouts |->
              [timeouts EXCEPT
                  ![disconnectTimers[TimerKey(roomCode, role)]].state = "cleared"]]
    ELSE [disconnectTimers |-> disconnectTimers, timeouts |-> timeouts]

\* _syncToDB(roomCode): the store operation it issues for the rooms as they
\* are when it is called.
SyncToDB(map, roomCode) ==
    IF MapHas(map, roomCode)
    THEN [kind |-> "updateOne", roomCode |-> roomCode,
          users |-> MapUsers(map, roomCode)]
    ELSE [kind |-> "deleteOne", roomCode |-> roomCode, users |-> <<>>]

\* The collection after a store operation that succeeded.
ApplyDB(coll, db) ==
    IF db.kind = "updateOne" THEN FnSet(coll, db.roomCode, db.users)
    ELSE FnDelete(coll, db.roomCode)

\* A slot update that pushes without looking for the role.
BindSlotAlwaysPushes(users, role, socketId) ==
    Append(users, [socketId |-> socketId, role |-> role])

\* The rebind-or-add of one role's slot: users.find(u => u.role === role),
\* then the assignment of socketId or the push.
BindSlot(users, role, socketId) ==
    IF FindRole(users, role) # 0
    THEN [users EXCEPT ![FindRole(users, role)].socketId = socketId]
    ELSE Append(users, [socketId |-> socketId, role |-> role])

\* joinRoom's check `!room || room.users.length === 0`, negated.
JoinFindsRoom(map, roomCode) ==
    MapHas(map, roomCode) /\ Len(MapUsers(map, roomCode)) # 0

\* A createRoom that sets the room anew whether or not it exists.
CreateRoomResets(map, roomCode, socketId) ==
    MapSet(map, roomCode, <<[socketId |-> socketId, role |-> "user1"]>>)

\* createRoom, the rooms after it.
CreateRoomMap(map, roomCode, socketId) ==
    IF ~MapHas(map, roomCode)
    THEN MapSet(map, roomCode, <<[socketId |-> socketId, role |-> "user1"]>>)
    ELSE MapSet(map, roomCode, BindSlot(MapUsers(map, roomCode), "user1", socketId))

\* joinRoom, the rooms after it (the room is present).
JoinRoomMap(map, roomCode, socketId) ==
    MapSet(map, roomCode, BindSlot(MapUsers(map, roomCode), "user2", socketId))

\* rejoinRoom, the rooms after it.
RejoinRoomMap(map, roomCode, role, socketId) ==
    IF ~MapHas(map, roomCode)
    THEN MapSet(map, roomCode, <<[socketId |-> socketId, role |-> role]>>)
    ELSE MapSet(map, roomCode, BindSlot(MapUsers(map, roomCode), role, socketId))

\* room.users = <the users kept by a filter>, and the delete of a room left
\* empty.
FilterRoom(map, roomCode, kept) ==
    IF kept = <<>> THEN MapDelete(map, roomCode) ELSE MapSet(map, roomCode, kept)

\* A leaveRoom that drops the last participant when the socket holds no slot.
LeaveRoomPops(map, roomCode, socketId) ==
    IF FindSocket(MapUsers(map, roomCode), socketId) # 0
    THEN FilterRoom(map, roomCode,
             SelectSeq(MapUsers(map, roomCode), LAMBDA u : u.socketId # socketId))
    ELSE FilterRoom(map, roomCode,
             SubSeq(MapUsers(map, roomCode), 1, Len(MapUsers(map, roomCode)) - 1))

\* leaveRoom, the rooms after it (the room is present).
LeaveRoomMap(map, roomCode, socketId) ==
    FilterRoom(map, roomCode,
        SelectSeq(MapUsers(map, roomCode), LAMBDA u : u.socketId # socketId))

\* An eviction that keeps a room it has emptied.
EvictKeepsEmptyRoom(map, roomCode, role) ==
    MapSet(map, roomCode, SelectSeq(MapUsers(map, roomCode), LAMBDA u : u.role # role))

\* The timer callback's eviction, the rooms after it.
EvictMap(map, roomCode, role) ==
    FilterRoom(map, roomCode,
        SelectSeq(MapUsers(map, roomCode), LAMBDA u : u.role # role))

\* A handler suspended at its store write.  joinRoom and rejoinRoom hold
\* the room object in a local across the await; `detached` says that object
\* has been deleted from the Map since.  A room is deleted only when its
\* users are empty and nothing reaches the object afterwards, so a detached
\* room's users are [] for good, whatever room the Map holds for the code by
\* then.
Suspended(op, roomCode, socketId, role, map) ==
    [op |-> op, roomCode |-> roomCode, socketId |-> socketId, role |-> role,
     db |-> SyncToDB(map, roomCode), detached |-> FALSE]

\* The suspended handlers after the rooms changed from `map` to `newMap`:
\* the handlers whose room object left the Map are detached.
Detach(pend, map, newMap) ==
    [i \in 1..Len(pend) |->
        IF /\ pend[i].op \in {"join-room", "rejoin-room"}
           /\ MapHas(map, pend[i].roomCode)
           /\ ~MapHas(newMap, pend[i].roomCode)
        THEN [pend[i] EXCEPT !.detached = TRUE]
        ELSE pend[i]]

\* room.users as a suspended handler reads it after the await.
UsersSeenBy(p) == IF p.detached THEN <<>> ELSE MapUsers(rooms, p.roomCode)

RemoveAt(seq, i) == SubSeq(seq, 1, i - 1) \o SubSeq(seq, i + 1, Len(seq))

\* socket.join(roomCode); a socket that has disconnected is in no group.
SocketJoin(s, roomCode) ==
    IF conn[s] = "open" THEN [subs EXCEPT ![s] = @ \cup {roomCode}] ELSE subs

\* The report of a handler's continuation.
ReportDone(step, p, ack, emits) ==
    [step |-> step, roomCode |-> p.roomCode, socketId |-> p.socketId,
     role |-> p.role, ack |-> ack, emits |-> emits, detached |-> p.detached]

\* ------------------------------------------------------------ the handlers

\* socket.on('create-room') up to the await of createRoom's store write.
CreateRoom(s, roomCode) ==
    /\ conn[s] = "open"
    /\ IF ~ValidCode(roomCode)
       THEN /\ last' = Report("create-room", roomCode, s, "user1", "invalid-code", {})
            /\ UNCHANGED <<rooms, disconnectTimers, timeouts, pending>>
       ELSE /\ Len(pending) < MaxPending
            /\ disconnectTimers' = CancelDisconnectTimer(roomCode, "user1").disconnectTimers
            /\ timeouts' = CancelDisconnectTimer(roomCode, "user1").timeouts
            /\ rooms' = CreateRoomMap(rooms, roomCode, s)
            /\ pending' = Append(pending,
                   Suspended("create-room", roomCode, s, "user1", rooms'))
            /\ last' = Quiet
    /\ UNCHANGED <<conn, subs, store, onRemovedCalls>>
    /\ UNCHANGED clientVars

\* The store write of the suspended handler i completes, or fails and leaves
\* the collection as it is.
StoreAfter(i, ok) == IF ok THEN ApplyDB(store, pending[i].db) ELSE store

\* A _syncToDB without its .catch: the promise of a failed write rejects.
SyncRethrows(ok) == ~ok

\* Whether `await this._syncToDB(roomCode)` throws: deleteOne and updateOne
\* carry a .catch that swallows or logs the failure, so it never does.
SyncThrows(ok) == FALSE

\* What the try/catch of a handler makes of the awaited call: the result of
\* the RoomManager, or { success: false, msg: 'Server error' }.
AckAfter(ok) == IF SyncThrows(ok) THEN "server-error" ELSE "ok"

\* The emits of a handler, none when the awaited call threw.
EmitsAfter(ok, emits) == IF SyncThrows(ok) THEN {} ELSE emits

\* socket.join(roomCode) of a handler, skipped when the awaited call threw.
JoinAfter(ok, s, roomCode) == IF SyncThrows(ok) THEN subs ELSE SocketJoin(s, roomCode)

\* socket.on('create-room') after the await: socket.join and cb(result).
CreateRoomDone(i, ok) ==
    /\ i \in 1..Len(pending)
    /\ pending[i].op = "create-room"
    /\ store' = StoreAfter(i, ok)
    /\ pending' = RemoveAt(pending, i)
    /\ subs' = JoinAfter(ok, pending[i].socketId, pending[i].roomCode)
    /\ last' = ReportDone("create-room:done", pending[i], AckAfter(ok), {})
    /\ UNCHANGED <<conn, rooms, disconnectTimers, timeouts, onRemovedCalls>>
    /\ UNCHANGED clientVars

\* socket.on('join-room') up to the await of joinRoom's store write.
JoinRoom(s, roomCode) ==
    /\ conn[s] = "open"
    /\ IF ~ValidCode(roomCode)
       THEN /\ last' = Report("join-room", roomCode, s, "user2", "invalid-code", {})
            /\ UNCHANGED <<rooms, disconnectTimers, timeouts, pending>>
       ELSE IF ~JoinFindsRoom(rooms, roomCode)
       THEN /\ last' = Report("join-room", roomCode, s, "user2", "room-not-found", {})
            /\ UNCHANGED <<rooms, disconnectTimers, timeouts, pending>>
       ELSE /\ Len(pending) < MaxPending
            /\ disconnectTimers' = CancelDisconnectTimer(roomCode, "user2").disconnectTimers
            /\ timeouts' = CancelDisconnectTimer(roomCode, "user2").timeouts
            /\ rooms' = JoinRoomMap(rooms, roomCode, s)
            /\ pending' = Append(pending,
                   Suspended("join-room", roomCode, s, "user2", rooms'))
            /\ last' = Quiet
    /\ UNCHANGED <<conn, subs, store, onRemovedCalls>>
    /\ UNCHANGED clientVars

\* The start-chat of the join-room handler: io.to(result.user1SocketId), when
\* joinRoom found a user1 after its await.
JoinEmits(p) ==
    IF SocketOfRole(UsersSeenBy(p), "user1") # NoSocket
    THEN {EmitToSocket("start-chat", SocketOfRole(UsersSeenBy(p), "user1"), conn)}
    ELSE {}

\* socket.on('join-room') after the await.
JoinRoomDone(i, ok) ==
    /\ i \in 1..Len(pending)
    /\ pending[i].op = "join-room"
    /\ store' = StoreAfter(i, ok)
    /\ pending' = RemoveAt(pending, i)
    /\ subs' = JoinAfter(ok, pending[i].socketId, pending[i].roomCode)
    /\ last' = ReportDone("join-room:done", pending[i], AckAfter(ok),
                   EmitsAfter(ok, JoinEmits(pending[i])))
    /\ UNCHANGED <<conn, rooms, disconnectTimers, timeouts, onRemovedCalls>>
    /\ UNCHANGED clientVars

\* socket.on('rejoin-room') up to the await of rejoinRoom's store write, as
\* far as the server goes.
OnRejoinRoom(s, roomCode, role) ==
    /\ conn[s] = "open"
    /\ Len(pending) < MaxPending
    /\ disconnectTimers' = CancelDisconnectTimer(roomCode, role).disconnectTimers
    /\ timeouts' = CancelDisconnectTimer(roomCode, role).timeouts
    /\ rooms' = RejoinRoomMap(rooms, roomCode, role, s)
    /\ pending' = Append(pending, Suspended("rejoin-room", roomCode, s, role, rooms'))
    /\ last' = Quiet
    /\ UNCHANGED <<conn, subs, store, onRemovedCalls>>

\* socket.on('rejoin-room') up to the await of rejoinRoom's store write.
RejoinRoom(s, roomCode, role) ==
    /\ OnRejoinRoom(s, roomCode, role)
    /\ UNCHANGED clientVars

\* A rejoin-room handler that addresses the users as they were when the
\* store write was issued.
RejoinRestartsFromSnapshot(p) ==
    IF /\ SocketOfRole(p.db.users, "user1") # NoSocket
       /\ SocketOfRole(p.db.users, "user2") # NoSocket
    THEN {EmitToSocket("restart-webrtc", SocketOfRole(p.db.users, "user1"), conn),
          EmitToSocket("restart-webrtc", SocketOfRole(p.db.users, "user2"), conn)}
    ELSE {}

\* The restart-webrtc of the rejoin-room handler: to result.user1.socketId and
\* result.user2.socketId when both were found after the await.
RejoinRestarts(p) ==
    IF /\ SocketOfRole(UsersSeenBy(p), "user1") # NoSocket
       /\ SocketOfRole(UsersSeenBy(p), "user2") # NoSocket
    THEN {EmitToSocket("restart-webrtc", SocketOfRole(UsersSeenBy(p), "user1"), conn),
          EmitToSocket("restart-webrtc", SocketOfRole(UsersSeenBy(p), "user2"), conn)}
    ELSE {}

\* socket.on('rejoin-room') after the await, as far as the server goes.
OnRejoinRoomDone(i, ok) ==
    /\ i \in 1..Len(pending)
    /\ pending[i].op = "rejoin-room"
    /\ store' = StoreAfter(i, ok)
    /\ pending' = RemoveAt(pending, i)
    /\ subs' = JoinAfter(ok, pending[i].socketId, pending[i].roomCode)
    /\ last' = ReportDone("rejoin-room:done", pending[i], "none",
                   EmitsAfter(ok, RejoinRestarts(pending[i])
                   \cup {EmitToRoom("start-chat", pending[i].roomCode, conn, subs')}))
    /\ UNCHANGED <<conn, rooms, disconnectTimers, timeouts, onRemovedCalls>>

\* socket.on('rejoin-room') after the await.
RejoinRoomDone(i, ok) ==
    /\ OnRejoinRoomDone(i, ok)
    /\ UNCHANGED clientVars

\* socket.on('leave-room') up to the await of leaveRoom's store write; all of
\* it when leaveRoom finds no room.
LeaveRoom(s, roomCode) ==
    /\ conn[s] = "open"
    /\ subs' = [subs EXCEPT ![s] = @ \ {roomCode}]
    /\ IF ~MapHas(rooms, roomCode)
       THEN /\ last' = Report("leave-room", roomCode, s, NoRole, "none",
                           {EmitToRoom("peer-left", roomCode, conn, subs')})
            /\ UNCHANGED <<rooms, pending>>
       ELSE /\ Len(pending) < MaxPending
            /\ rooms' = LeaveRoomMap(rooms, roomCode, s)
            /\ pending' = Append(Detach(pending, rooms, rooms'),
                   Suspended("leave-room", roomCode, s, NoRole, rooms'))
            /\ last' = Quiet
    /\ UNCHANGED <<conn, disconnectTimers, timeouts, store, onRemovedCalls>>
    /\ UNCHANGED clientVars

\* socket.on('leave-room') after the await: io.in(roomCode).emit('peer-left').
LeaveRoomDone(i, ok) ==
    /\ i \in 1..Len(pending)
    /\ pending[i].op = "leave-room"
    /\ store' = StoreAfter(i, ok)
    /\ pending' = RemoveAt(pending, i)
    /\ last' = ReportDone("leave-room:done", pending[i], "none",
                   EmitsAfter(ok, {EmitToRoom("peer-left", pending[i].roomCode, conn, subs)}))
    /\ UNCHANGED <<conn, subs, rooms, disconnectTimers, timeouts, onRemovedCalls>>
    /\ UNCHANGED clientVars

\* handleDisconnect's search: the first room, in the Map's order, that holds
\* the socket id, and the role of the first user holding it there; 0 if none.
FoundRoom(map, socketId) ==
    IF \E i \in 1..Len(map) : FindSocket(map[i].users, socketId) # 0
    THEN CHOOSE i \in 1..Len(map) :
            /\ FindSocket(map[i].users, socketId) # 0
            /\ \A j \in 1..(i - 1) : FindSocket(map[j].users, socketId) = 0
    ELSE 0

FoundRole(map, socketId) ==
    map[FoundRoom(map, socketId)].users[
        FindSocket(map[FoundRoom(map, socketId)].users, socketId)].role

\* socket.on('disconnect'): the socket leaves its groups and handleDisconnect
\* arms the grace-period timer of the slot found.
Disconnect(s) ==
    /\ conn[s] = "open"
    /\ conn' = [conn EXCEPT ![s] = "closed"]
    /\ subs' = [subs EXCEPT ![s] = {}]
    /\ IF FoundRoom(rooms, s) = 0
       THEN /\ last' = Quiet
            /\ UNCHANGED <<disconnectTimers, timeouts>>
       ELSE /\ timeouts' = [timeouts EXCEPT ![s] =
                   [roomCode |-> rooms[FoundRoom(rooms, s)].roomCode,
                    role |-> FoundRole(rooms, s), state |-> "armed"]]
            /\ disconnectTimers' = FnSet(disconnectTimers,
                   TimerKey(rooms[FoundRoom(rooms, s)].roomCode, FoundRole(rooms, s)), s)
            /\ last' = Quiet
    /\ UNCHANGED <<rooms, pending, store, onRemovedCalls>>
    /\ UNCHANGED clientVars

\* A re-check that asks only whether the slot of the role is held.
StillHeldByAnyone(map, roomCode, role, socketId) ==
    /\ MapHas(map, roomCode)
    /\ FindRole(MapUsers(map, roomCode), role) # 0

\* The re-check of the timer callback: the room is there and the slot of the
\* role still holds the socket id that disconnected.
StillHeld(map, roomCode, role, socketId) ==
    /\ MapHas(map, roomCode)
    /\ FindRole(MapUsers(map, roomCode), role) # 0
    /\ SocketOfRole(MapUsers(map, roomCode), role) = socketId

\* The setTimeout callback of handleDisconnect, DISCONNECT_GRACE_MS after the
\* disconnect of s, up to the await of its store write.
GraceExpired(s) ==
    /\ timeouts[s].state = "armed"
    /\ timeouts' = [timeouts EXCEPT ![s].state = "fired"]
    /\ disconnectTimers' =
           FnDelete(disconnectTimers, TimerKey(timeouts[s].roomCode, timeouts[s].role))
    /\ IF ~StillHeld(rooms, timeouts[s].roomCode, timeouts[s].role, s)
       THEN /\ last' = Quiet
            /\ UNCHANGED <<rooms, pending>>
       ELSE /\ Len(pending) < MaxPending
            /\ rooms' = EvictMap(rooms, timeouts[s].roomCode, timeouts[s].role)
            /\ pending' = Append(Detach(pending, rooms, rooms'),
                   Suspended("evict", timeouts[s].roomCode, s, timeouts[s].role, rooms'))
            /\ last' = Quiet
    /\ UNCHANGED <<conn, subs, store, onRemovedCalls>>
    /\ UNCHANGED clientVars

\* The timer callback after the await: onRemoved(roomCode, foundRole), which
\* is io.in(roomCode).emit('peer-left').
EvictDone(i, ok) ==
    /\ i \in 1..Len(pending)
    /\ pending[i].op = "evict"
    /\ store' = StoreAfter(i, ok)
    /\ pending' = RemoveAt(pending, i)
    /\ onRemovedCalls' = [onRemovedCalls EXCEPT ![pending[i].socketId] =
                              IF SyncThrows(ok) THEN @ ELSE @ + 1]
    /\ last' = ReportDone("evict:done", pending[i], "none",
                   EmitsAfter(ok, {EmitToRoom("peer-left", pending[i].roomCode, conn, subs)}))
    /\ UNCHANGED <<conn, subs, rooms, disconnectTimers, timeouts>>
    /\ UNCHANGED clientVars

\* loadFromDB: the rooms Map filled from the documents of the collection, in
\* the order the cursor returns them.
RECURSIVE LoadFromDB(_)
LoadFromDB(coll) ==
    IF DOMAIN coll = {} THEN <<>>
    ELSE LET roomCode == CHOOSE c \in DOMAIN coll : TRUE
         IN MapSet(LoadFromDB(FnDelete(coll, roomCode)), roomCode, coll[roomCode])

\* The socket id is held nowhere: by no room, no record, no group and no
\* handler.  An open connection with such an id is as good as one made after
\* the restart.
Unused(s) ==
    /\ \A i \in 1..Len(rooms) : FindSocket(rooms[i].users, s) = 0
    /\ \A roomCode \in DOMAIN store : FindSocket(store[roomCode], s) = 0
    /\ subs[s] = {}
    /\ timeouts[s] = NoTimeout

\* The server process stops, all store writes completed, and starts again:
\* every connection and every timer of the old process is gone, and the new
\* process warms its registry with loadFromDB before it accepts connections.
Restart ==
    /\ pending = <<>>
    /\ rooms' = LoadFromDB(store)
    /\ disconnectTimers' = <<>>
    /\ timeouts' = [s \in SocketIds |-> NoTimeout]
    /\ conn' = [s \in SocketIds |->
                   IF conn[s] = "open" /\ Unused(s) THEN "open" ELSE "closed"]
    /\ subs' = [s \in SocketIds |-> {}]
    /\ onRemovedCalls' = [s \in SocketIds |-> 0]
    /\ last' = Quiet
    /\ UNCHANGED <<pending, store>>
    /\ UNCHANGED clientVars

\* One step of the server: a message of a client, a dropped connection, a
\* grace period that expires, a store write that completes.  `codes` are the
\* room codes create-room and join-room messages carry, `boundCodes` those of
\* rejoin-room and leave-room messages, `roles` the roles rejoin-room
\* messages carry, `outcomes` whether a store write may succeed (TRUE) or
\* fail (FALSE).
NextWith(codes, boundCodes, roles, outcomes) ==
    \/ \E s \in SocketIds, roomCode \in codes : CreateRoom(s, roomCode)
    \/ \E i \in 1..MaxPending, ok \in outcomes : CreateRoomDone(i, ok)
    \/ \E s \in SocketIds, roomCode \in codes : JoinRoom(s, roomCode)
    \/ \E i \in 1..MaxPending, ok \in outcomes : JoinRoomDone(i, ok)
    \/ \E s \in SocketIds, roomCode \in boundCodes, role \in roles :
           RejoinRoom(s, roomCode, role)
    \/ \E i \in 1..MaxPending, ok \in outcomes : RejoinRoomDone(i, ok)
    \/ \E s \in SocketIds, roomCode \in boundCodes : LeaveRoom(s, roomCode)
    \/ \E i \in 1..MaxPending, ok \in outcomes : LeaveRoomDone(i, ok)
    \/ \E s \in SocketIds : Disconnect(s)
    \/ \E s \in SocketIds : GraceExpired(s)
    \/ \E i \in 1..MaxPending, ok \in outcomes : EvictDone(i, ok)

\* The registry and the relay with a store whose writes succeed: clients
\* send create-room and join-room with well-formed and malformed codes, and
\* rejoin-room and leave-room for the well-formed code in either role.
Next == NextWith(RoomCodes, {GoodCode}, Roles, {TRUE})

Spec == Init /\ [][Next]_vars

\* The same with a store that is down, every write to it failing, for the
\* well-formed code.
NextStoreDown == NextWith({GoodCode}, {GoodCode}, Roles, {FALSE})

SpecStoreDown == Init /\ [][NextStoreDown]_vars

\* The server with a store whose writes succeed or fail, and restarts of the
\* process; the clients create, join and leave the room of the well-formed
\* code and stay connected.
NextRestart ==
    \/ \E s \in SocketIds : CreateRoom(s, GoodCode)
    \/ \E i \in 1..MaxPending, ok \in BOOLEAN : CreateRoomDone(i, ok)
    \/ \E s \in SocketIds : JoinRoom(s, GoodCode)
    \/ \E i \in 1..MaxPending, ok \in BOOLEAN : JoinRoomDone(i, ok)
    \/ \E s \in SocketIds : LeaveRoom(s, GoodCode)
    \/ \E i \in 1..MaxPending, ok \in BOOLEAN : LeaveRoomDone(i, ok)
    \/ Restart

SpecRestart == Init /\ [][NextRestart]_vars

\* A new connection.  Its socket id is new; the model gives it the id of a
\* closed connection of which nothing is left: no slot, no record, no
\* handler, no armed timer, no handle in the timers Map.
NewConnection(s) ==
    /\ conn[s] = "closed"
    /\ \A i \in 1..Len(rooms) : FindSocket(rooms[i].users, s) = 0
    /\ \A roomCode \in DOMAIN store : FindSocket(store[roomCode], s) = 0
    /\ \A i \in 1..Len(pending) :
           pending[i].socketId # s /\ FindSocket(pending[i].db.users, s) = 0
    /\ timeouts[s].state # "armed"
    /\ \A key \in DOMAIN disconnectTimers : disconnectTimers[key] # s
    /\ conn' = [conn EXCEPT ![s] = "open"]
    /\ timeouts' = [timeouts EXCEPT ![s] = NoTimeout]
    /\ onRemovedCalls' = [onRemovedCalls EXCEPT ![s] = 0]
    /\ last' = Quiet
    /\ UNCHANGED <<subs, rooms, disconnectTimers, pending, store>>
    /\ UNCHANGED clientVars

\* The registry under rejoin-room messages that carry the codes and roles
\* given: rejoinRoom checks neither.  Connections drop, grace periods expire
\* and new connections arrive.
NextRejoinWith(codes, roles) ==
    \/ \E s \in SocketIds, roomCode \in codes, role \in roles :
           RejoinRoom(s, roomCode, role)
    \/ \E i \in 1..MaxPending : RejoinRoomDone(i, TRUE)
    \/ \E s \in SocketIds : Disconnect(s)
    \/ \E s \in SocketIds : GraceExpired(s)
    \/ \E i \in 1..MaxPending : EvictDone(i, TRUE)
    \/ \E s \in SocketIds : NewConnection(s)

\* rejoin-room for the well-formed code, the role null or the text null.
NextOddRoles == NextRejoinWith({GoodCode}, OddRoles)

SpecOddRoles == Init /\ [][NextOddRoles]_vars

\* rejoin-room as user1 with a well-formed or a malformed code.
NextAnyCode == NextRejoinWith(RoomCodes, {"user1"})

SpecAnyCode == Init /\ [][NextAnyCode]_vars

\* --------------------------------------------------------- SignalingClient

maxReconnectAttempts == 20

Message(event, role) == [event |-> event, role |-> role]

Event(name, n) == [name |-> name, n |-> n]

\* { roomCode: this.roomCode, role: this.role } under rejoin-room
RejoinMessage(sig) == Message("rejoin-room", sig.role)

\* create-room for user1 and join-room for user2, each with an ack callback.
FirstMessage(sig) ==
    IF sig.role = "user1" THEN Message("create-room", NoRole)
    ELSE Message("join-room", NoRole)

\* _stopHeartbeat()
StopHeartbeat(sig) == [sig EXCEPT !.heartbeatInterval = FALSE]

\* _clearReconnectTimer()
ClearReconnectTimer(sig) ==
    [sig EXCEPT !.reconnectTimer = FALSE, !.reconnectAttempts = 0]

\* _startReconnectTimer()
StartReconnectTimer(sig) ==
    [ClearReconnectTimer(sig) EXCEPT !.reconnectTimer = TRUE]

\* The socket's 'disconnect' handler.
OnDisconnect(sig) ==
    StartReconnectTimer([sig EXCEPT !.state = "reconnecting"])

ReachedMaxLate(n) == n > maxReconnectAttempts

\* this._reconnectAttempts >= this.maxReconnectAttempts
ReachedMax(n) == n >= maxReconnectAttempts

ConnectAlwaysFirstFlow(sig) == <<FirstMessage(sig)>>

\* What the socket's 'connect' handler sends.
ConnectSends(sig) ==
    IF sig.state = "reconnecting" THEN <<RejoinMessage(sig)>>
    ELSE <<FirstMessage(sig)>>

\* What the listener that connect() adds with once('connect') sends; it runs
\* after the 'connect' handler, which was bound before it.
OnceSends(sig, page) ==
    IF page.onceConnect THEN <<RejoinMessage(sig)>> ELSE <<>>

\* connect()
Connect ==
    /\ ~browser.socket
    /\ signaling' = [signaling EXCEPT !.state = "connecting",
                                      !.heartbeatInterval = TRUE]
    /\ browser' = [browser EXCEPT !.socket = TRUE,
                                  !.onceConnect = browser.reloaded]
    /\ emitted' = [emitted EXCEPT
                      !.sent = <<>>,
                      !.events = <<Event("state-change", 0)>>]
    /\ UNCHANGED <<serverVars, wire, peerVars>>

\* The transport connects, for the first time or again: the 'connect'
\* listeners run in the order they were added.
TransportConnect ==
    /\ browser.socket
    /\ ~browser.connected
    /\ ~browser.closedByClient
    /\ signaling' = IF signaling.state = "reconnecting"
                    THEN ClearReconnectTimer(signaling)
                    ELSE signaling
    /\ browser' = [browser EXCEPT
                      !.connected = TRUE,
                      !.onceConnect = FALSE,
                      !.awaitingAck = signaling.state # "reconnecting"]
    /\ emitted' = [emitted EXCEPT
                      !.sent = ConnectSends(signaling)
                                   \o OnceSends(signaling, browser),
                      !.events = IF signaling.state = "reconnecting"
                                 THEN <<Event("reconnected", 0)>>
                                 ELSE <<>>]
    /\ UNCHANGED <<serverVars, wire, peerVars>>

\* The server's ack of create-room or join-room arrives.
Ack(success) ==
    /\ browser.connected
    /\ browser.awaitingAck
    /\ signaling' = IF success
                    THEN [signaling EXCEPT !.state = "room_joined"]
                    ELSE signaling
    /\ browser' = [browser EXCEPT !.awaitingAck = FALSE]
    /\ emitted' = [emitted EXCEPT
                      !.sent = <<>>,
                      !.events = IF success
                                 THEN <<Event("state-change", 0),
                                        Event("room-ready", 0)>>
                                 ELSE <<Event("error", 0)>>]
    /\ UNCHANGED <<serverVars, wire, peerVars>>

\* The server's start-chat arrives.
StartChat ==
    /\ browser.connected
    /\ signaling' = [signaling EXCEPT !.state = "room_joined"]
    /\ emitted' = [emitted EXCEPT
                      !.sent = <<>>,
                      !.events = <<Event("state-change", 0),
                                   Event("peer-joined", 0)>>]
    /\ UNCHANGED <<browser, serverVars, wire, peerVars>>

\* The transport drops: the socket's 'disconnect' handler runs and a new
\* reconnecting episode begins.
TransportDisconnect ==
    /\ browser.connected
    /\ signaling' = OnDisconnect(signaling)
    /\ browser' = [browser EXCEPT !.connected = FALSE,
                                  !.awaitingAck = FALSE]
    /\ emitted' = [sent |-> <<>>,
                   events |-> <<Event("state-change", 0),
                                Event("disconnected", 0)>>,
                   failed |-> 0]
    /\ UNCHANGED <<serverVars, wire, peerVars>>

\* The callback of the reconnect indicator's setInterval.
ReconnectTick ==
    /\ signaling.reconnectTimer
    /\ LET n == signaling.reconnectAttempts + 1
       IN  IF ReachedMax(n)
           THEN /\ signaling' = ClearReconnectTimer(signaling)
                /\ emitted' = [sent |-> <<>>,
                               events |-> <<Event("reconnect-attempt", n),
                                            Event("reconnect-failed", 0)>>,
                               failed |-> emitted.failed + 1]
           ELSE /\ signaling' = [signaling EXCEPT !.reconnectAttempts = n]
                /\ emitted' = [emitted EXCEPT
                                  !.sent = <<>>,
                                  !.events = <<Event("reconnect-attempt", n)>>]
    /\ UNCHANGED <<browser, serverVars, wire, peerVars>>

\* The callback of the heartbeat's setInterval.
HeartbeatTick ==
    /\ signaling.heartbeatInterval
    /\ emitted' = [emitted EXCEPT
                      !.sent = IF browser.socket /\ browser.connected
                               THEN <<Message("heartbeat", NoRole)>>
                               ELSE <<>>,
                      !.events = <<>>]
    /\ UNCHANGED <<signaling, browser, serverVars, wire, peerVars>>

\* leave(). socket.disconnect() on a connected socket may report 'disconnect'
\* to the handler bound by _bindSocketEvents before it returns (fires).
Leave(fires) ==
    /\ browser.socket
    /\ fires => browser.connected
    /\ signaling' = [StopHeartbeat(IF fires THEN OnDisconnect(signaling)
                                   ELSE signaling)
                        EXCEPT !.state = "disconnected"]
    /\ browser' = [browser EXCEPT !.connected = FALSE,
                                  !.awaitingAck = FALSE,
                                  !.closedByClient = TRUE]
    /\ emitted' = [sent |-> <<Message("leave-room", NoRole)>>,
                   events |-> (IF fires
                               THEN <<Event("state-change", 0),
                                      Event("disconnected", 0)>>
                               ELSE <<>>)
                              \o <<Event("state-change", 0)>>,
                   failed |-> IF fires THEN 0 ELSE emitted.failed]
    /\ UNCHANGED <<serverVars, wire, peerVars>>

InitSignaling ==
    /\ ServerIdle
    /\ \E role \in Roles : signaling = NewSignalingClient(role)
    /\ \E reloaded \in BOOLEAN : browser = NewPage(reloaded)
    /\ emitted = Nothing
    /\ PeerIdle
    /\ wire = NoTraffic

NextSignaling ==
    \/ Connect
    \/ TransportConnect
    \/ \E success \in BOOLEAN : Ack(success)
    \/ StartChat
    \/ TransportDisconnect
    \/ ReconnectTick
    \/ HeartbeatTick
    \/ \E fires \in BOOLEAN : Leave(fires)

SpecSignaling == InitSignaling /\ [][NextSignaling]_vars

\* ------------------------------------------------------------- PeerManager

MaxSends == 2
MaxLinks == 2
MaxSetups == 2

\* The channel of the link this.dataChannel refers to is open.
IsDataChannelOpen(pm, conns) ==
    pm.dataChannel # 0 /\ conns[pm.dataChannel].channel = "open"

\* while (retryQueue.length > 0 && dataChannel && readyState === 'open')
\*     dataChannel.send(retryQueue.shift())
FlushedQueue(pm, conns) ==
    IF IsDataChannelOpen(pm, conns) THEN <<>> ELSE pm.retryQueue

FlushedPayloads(pm, conns) ==
    IF IsDataChannelOpen(pm, conns) THEN pm.retryQueue ELSE <<>>

\* The channel's onopen handler: flush, then stop the flush timer when the
\* queue is empty.
OnOpen(pm, conns) ==
    [pm EXCEPT !.retryQueue = FlushedQueue(pm, conns),
               !.retryInterval = IF FlushedQueue(pm, conns) = <<>>
                                 THEN FALSE ELSE @]

\* cleanup() as far as the PeerManager's fields go.
CleanedUp(pm) ==
    [pm EXCEPT !.peerConnection = 0, !.dataChannel = 0,
               !.retryQueue = <<>>, !.retryInterval = FALSE]

\* peerConnection.close(), which closes the link's channel with it.
ClosedLinks(pm, conns) ==
    IF pm.peerConnection = 0 THEN conns
    ELSE [conns EXCEPT ![pm.peerConnection] =
                           [closed |-> TRUE,
                            channel |-> IF @.channel = "none" THEN "none"
                                        ELSE "closed",
                            ice |-> "closed"]]

\* setup() up to its await: returns at once when there is a link.
Setup ==
    /\ peer.peerConnection = 0
    /\ setups < MaxSetups
    /\ setups' = setups + 1
    /\ UNCHANGED <<peer, links, iceRestarts, tally, serverVars, wire, signaling,
                   browser, emitted>>

\* setup() after its await: a new RTCPeerConnection, and for user1 a new
\* data channel on it.  `stale` says the call began before the last cleanup().
SetupResume(stale) ==
    /\ IF stale THEN tally.stale > 0 ELSE setups > tally.stale
    /\ Len(links) < MaxLinks
    /\ LET id == Len(links) + 1
       IN  /\ links' = Append(links,
                  [closed |-> FALSE,
                   channel |-> IF signaling.role = "user1" THEN "connecting"
                               ELSE "none",
                   ice |-> "new"])
           /\ peer' = [peer EXCEPT
                         !.peerConnection = id,
                         !.dataChannel = IF signaling.role = "user1" THEN id
                                         ELSE @]
    /\ setups' = setups - 1
    /\ tally' = [tally EXCEPT !.created = @ + 1,
                              !.stale = IF stale THEN @ - 1 ELSE @]
    /\ UNCHANGED <<iceRestarts, serverVars, wire, signaling, browser, emitted>>

\* user1: the channel created on link k opens and its onopen handler runs.
ChannelOpen(k) ==
    /\ k \in DOMAIN links
    /\ links[k].channel = "connecting"
    /\ links' = [links EXCEPT ![k].channel = "open"]
    /\ peer' = OnOpen(peer, links')
    /\ tally' = [tally EXCEPT
                    !.delivered = @ \o FlushedPayloads(peer, links')]
    /\ UNCHANGED <<setups, iceRestarts, serverVars, wire, signaling, browser,
                   emitted>>

\* user2: link k announces the initiator's channel, open; the ondatachannel
\* handler binds it and its onopen handler runs.
DataChannel(k) ==
    /\ signaling.role = "user2"
    /\ k \in DOMAIN links
    /\ ~links[k].closed
    /\ links[k].channel = "none"
    /\ links' = [links EXCEPT ![k].channel = "open"]
    /\ peer' = OnOpen([peer EXCEPT !.dataChannel = k], links')
    /\ tally' = [tally EXCEPT
                    !.delivered = @ \o FlushedPayloads(
                                        [peer EXCEPT !.dataChannel = k],
                                        links')]
    /\ UNCHANGED <<setups, iceRestarts, serverVars, wire, signaling, browser,
                   emitted>>

\* The channel of link k goes down; its onclose handler only emits.
ChannelClose(k) ==
    /\ k \in DOMAIN links
    /\ links[k].channel \in {"connecting", "open"}
    /\ links' = [links EXCEPT ![k].channel = "closed"]
    /\ UNCHANGED <<peer, setups, iceRestarts, tally, serverVars, wire, signaling,
                   browser, emitted>>

\* send(data), the payloads numbered in the order of the calls.
Send ==
    /\ tally.sends < MaxSends
    /\ LET data == tally.sends + 1
       IN  IF IsDataChannelOpen(peer, links)
           THEN /\ tally' = [tally EXCEPT !.sends = data,
                                          !.delivered = Append(@, data)]
                /\ peer' = peer
           ELSE /\ tally' = [tally EXCEPT !.sends = data]
                /\ peer' = [peer EXCEPT !.retryQueue = Append(@, data),
                                        !.retryInterval = TRUE]
    /\ UNCHANGED <<links, setups, iceRestarts, serverVars, wire, signaling, browser,
                   emitted>>

\* The callback of the retry queue's setInterval.
RetryTick ==
    /\ peer.retryInterval
    /\ peer' = OnOpen(peer, links)
    /\ tally' = [tally EXCEPT
                    !.delivered = @ \o FlushedPayloads(peer, links)]
    /\ UNCHANGED <<links, setups, iceRestarts, serverVars, wire, signaling, browser,
                   emitted>>

\* cleanup()
Cleanup ==
    /\ peer' = CleanedUp(peer)
    /\ links' = ClosedLinks(peer, links)
    /\ tally' = [tally EXCEPT !.created = 0, !.stale = setups]
    /\ UNCHANGED <<setups, iceRestarts, serverVars, wire, signaling, browser,
                   emitted>>

\* restart(), on ICE failure or on the server's restart-webrtc: cleanup(),
\* then signaling.rejoin().
PeerRestart ==
    /\ peer' = CleanedUp(peer)
    /\ links' = ClosedLinks(peer, links)
    /\ tally' = [tally EXCEPT !.created = 0, !.stale = setups]
    /\ emitted' = [emitted EXCEPT !.sent = <<RejoinMessage(signaling)>>,
                                  !.events = <<>>]
    /\ UNCHANGED <<setups, iceRestarts, serverVars, wire, signaling, browser>>

\* oniceconnectionstatechange of link k, whose ICE state became `state`.  The
\* handler reads this.peerConnection.iceConnectionState, the state of the
\* link the PeerManager holds when the event arrives; with no link held the
\* read throws.
IceStateChange(k, state) ==
    /\ k \in DOMAIN links
    /\ ~links[k].closed
    /\ links[k].ice # state
    /\ LET changed == [links EXCEPT ![k].ice = state]
           seen == IF peer.peerConnection = 0 THEN "none"
                   ELSE changed[peer.peerConnection].ice
       IN  IF peer.peerConnection = 0
           THEN /\ links' = changed
                /\ tally' = [tally EXCEPT !.errors = 1]
                /\ UNCHANGED <<peer, iceRestarts, emitted>>
           ELSE IF seen = "connected"
           THEN /\ links' = changed
                /\ peer' = [peer EXCEPT !.hasEverConnected = TRUE]
                /\ emitted' = [emitted EXCEPT
                       !.sent = <<>>,
                       !.events = <<Event("connected",
                                      IF peer.hasEverConnected THEN 0 ELSE 1)>>]
                /\ UNCHANGED <<iceRestarts, tally>>
           ELSE IF seen = "disconnected"
           THEN /\ links' = changed
                /\ iceRestarts' = iceRestarts \cup {peer.peerConnection}
                /\ emitted' = [emitted EXCEPT
                       !.sent = <<>>,
                       !.events = <<Event("ice-disconnected", 0)>>]
                /\ UNCHANGED <<peer, tally>>
           ELSE IF seen = "failed"
           THEN /\ peer' = CleanedUp(peer)
                /\ links' = ClosedLinks(peer, changed)
                /\ tally' = [tally EXCEPT !.created = 0, !.stale = setups]
                /\ emitted' = [emitted EXCEPT
                       !.sent = <<RejoinMessage(signaling)>>,
                       !.events = <<Event("ice-failed", 0)>>]
                /\ UNCHANGED iceRestarts
           ELSE /\ links' = changed
                /\ UNCHANGED <<peer, iceRestarts, tally, emitted>>
    /\ UNCHANGED <<setups, serverVars, wire, signaling, browser>>

\* _attemptIceRestart() for link k after its awaits.  createOffer rejects on
\* a closed link and setLocalDescription throws with no link held: the catch
\* calls restart().  On the link still held the offer is sent.  When the link
\* has been replaced, setLocalDescription is given the old link's offer on
\* the new link and may accept it or reject it (accepts).
IceRestartResume(k, accepts) ==
    /\ k \in iceRestarts
    /\ iceRestarts' = iceRestarts \ {k}
    /\ IF links[k].closed \/ peer.peerConnection = 0
          \/ (peer.peerConnection # k /\ ~accepts)
       THEN /\ peer' = CleanedUp(peer)
            /\ links' = ClosedLinks(peer, links)
            /\ tally' = [tally EXCEPT !.created = 0, !.stale = setups]
            /\ emitted' = [emitted EXCEPT
                              !.sent = <<RejoinMessage(signaling)>>,
                              !.events = <<>>]
       ELSE /\ emitted' = [emitted EXCEPT
                              !.sent = <<Message("offer", NoRole)>>,
                              !.events = <<>>]
            /\ UNCHANGED <<peer, links, tally>>
    /\ UNCHANGED <<setups, serverVars, wire, signaling, browser>>

\* A PeerManager of either role on a connected SignalingClient.
InitPeer ==
    /\ ServerIdle
    /\ \E role \in Roles :
           signaling = [NewSignalingClient(role) EXCEPT
                           !.state = "room_joined",
                           !.heartbeatInterval = TRUE]
    /\ browser = [NewPage(FALSE) EXCEPT !.socket = TRUE, !.connected = TRUE]
    /\ emitted = Nothing
    /\ PeerIdle
    /\ wire = NoTraffic

NextPeer ==
    \/ Setup
    \/ \E stale \in BOOLEAN : SetupResume(stale)
    \/ \E k \in 1..MaxLinks : ChannelOpen(k)
    \/ \E k \in 1..MaxLinks : DataChannel(k)
    \/ \E k \in 1..MaxLinks : ChannelClose(k)
    \/ Send
    \/ RetryTick
    \/ Cleanup
    \/ PeerRestart
    \/ \E k \in 1..MaxLinks, state \in {"connected", "disconnected", "failed"} :
           IceStateChange(k, state)
    \/ \E k \in 1..MaxLinks, accepts \in BOOLEAN : IceRestartResume(k, accepts)

SpecPeer == InitPeer /\ [][NextPeer]_vars

\* ----------------------------------------------------------- renegotiation

MaxInFlight == 2

\* this.role of the client behind a socket: the first is the initiator.
ClientRole(s) == IF s = 1 THEN "user1" ELSE "user2"

\* One message more in flight; beyond MaxInFlight the copies are not counted.
OneMore(n) == IF n < MaxInFlight THEN n + 1 ELSE n

\* The restart-webrtc messages of the step taken last that reach socket r.
RestartsTo(report, r) ==
    {e \in report.emits : e.event = "restart-webrtc" /\ r \in e.rcpt} # {}

\* The server receives a rejoin-room that the client of socket s sent.
ReceiveRejoin(s) ==
    /\ wire.rejoin[s] > 0
    /\ OnRejoinRoom(s, GoodCode, ClientRole(s))
    /\ wire' = [wire EXCEPT !.rejoin[s] = @ - 1]
    /\ UNCHANGED <<signaling, browser, emitted, peerVars>>

\* The rejoin-room handler resumes after its store write and sends
\* restart-webrtc to both participants when both slots are held.
CompleteRejoin(i) ==
    /\ OnRejoinRoomDone(i, TRUE)
    /\ wire' = [wire EXCEPT
                   !.restart = [r \in SocketIds |->
                                   IF RestartsTo(last', r) THEN OneMore(@[r])
                                   ELSE @[r]]]
    /\ UNCHANGED <<signaling, browser, emitted, peerVars>>

\* The client of socket s receives restart-webrtc: the PeerManager's handler
\* calls restart(), which is cleanup() and signaling.rejoin(), and rejoin()
\* sends rejoin-room.
OnRestartWebrtc(s) ==
    /\ wire.restart[s] > 0
    /\ wire' = [wire EXCEPT !.restart[s] = @ - 1,
                            !.rejoin[s] = OneMore(@)]
    /\ UNCHANGED <<serverVars, signaling, browser, emitted, peerVars>>

\* A room with both slots held, after create-room of socket 1 and join-room
\* of socket 2 completed, and one rejoin-room of socket 1 in flight: its
\* PeerManager ran restart() when its link failed.
InitRenegotiation ==
    /\ conn = [s \in SocketIds |-> "open"]
    /\ subs = [s \in SocketIds |-> IF s \in {1, 2} THEN {GoodCode} ELSE {}]
    /\ rooms = <<[roomCode |-> GoodCode,
                  users |-> <<[socketId |-> 1, role |-> "user1"],
                              [socketId |-> 2, role |-> "user2"]>>]>>
    /\ disconnectTimers = <<>>
    /\ timeouts = [s \in SocketIds |-> NoTimeout]
    /\ pending = <<>>
    /\ store = FnSet(<<>>, GoodCode, MapUsers(rooms, GoodCode))
    /\ onRemovedCalls = [s \in SocketIds |-> 0]
    /\ last = Quiet
    /\ signaling = NewSignalingClient("user1")
    /\ browser = NewPage(FALSE)
    /\ emitted = Nothing
    /\ PeerIdle
    /\ wire = [NoTraffic EXCEPT !.rejoin[1] = 1]

NextRenegotiation ==
    \/ \E s \in SocketIds : ReceiveRejoin(s)
    \/ \E i \in 1..MaxPending : CompleteRejoin(i)
    \/ \E s \in SocketIds : OnRestartWebrtc(s)

SpecRenegotiation == InitRenegotiation /\ [][NextRenegotiation]_vars

\* Every message in flight is received and every store write completes.
FairRenegotiation ==
    /\ SpecRenegotiation
    /\ \A s \in SocketIds : WF_vars(ReceiveRejoin(s))
    /\ \A i \in 1..MaxPending : WF_vars(CompleteRejoin(i))
    /\ \A s \in SocketIds : WF_vars(OnRestartWebrtc(s))

\* ------------------------------------------------------------- properties

\* The handle in the slot of a role, NoSocket when the room or the slot is
\* absent.
SlotOf(map, roomCode, role) ==
    IF MapHas(map, roomCode) THEN SocketOfRole(MapUsers(map, roomCode), role)
    ELSE NoSocket

\* The participants of a room, none when the room is absent.
UsersOf(map, roomCode) ==
    IF MapHas(map, roomCode) THEN MapUsers(map, roomCode) ELSE <<>>

\* The code has exactly six characters, each a letter or a digit.
WellFormed(roomCode) ==
    /\ Len(roomCode) = 6
    /\ \A i \in DOMAIN roomCode : roomCode[i] \in Upper \cup Lower \cup Digit

EvictPending(h) ==
    \E i \in 1..Len(pending) : pending[i].op = "evict" /\ pending[i].socketId = h

\* C1: a create-room or join-room with a code that is not six alphanumeric
\* characters is acknowledged with the invalid-code failure, and the step
\* changes neither the rooms, nor the pending-disconnect timers, nor the
\* store, nor the writes in flight to it.
C1_InvalidCodeRejected ==
    [][\A s \in SocketIds, roomCode \in RoomCodes :
          (~WellFormed(roomCode) /\ (CreateRoom(s, roomCode) \/ JoinRoom(s, roomCode)))
          => /\ last'.ack = "invalid-code"
             /\ UNCHANGED <<rooms, disconnectTimers, timeouts, store, pending>>]_vars

\* A malformed join-room was refused while a room and an armed timer exist.
C1_Witness ==
    /\ last.step = "join-room"
    /\ last.ack = "invalid-code"
    /\ ~WellFormed(last.roomCode)
    /\ MapHas(rooms, GoodCode)
    /\ \E h \in SocketIds : timeouts[h].state = "armed"

\* A rejoin-room for (roomCode, role) from socket s while the grace-period
\* timer of the dropped handle h is armed for that slot.
RejoinInGrace(s, roomCode, role, h) ==
    /\ RejoinRoom(s, roomCode, role)
    /\ timeouts[h].state = "armed"
    /\ timeouts[h].roomCode = roomCode
    /\ timeouts[h].role = role

C2_RejoinStep ==
    \A s \in SocketIds, h \in SocketIds, roomCode \in RoomCodes, role \in Roles :
        RejoinInGrace(s, roomCode, role, h)
        => /\ timeouts'[h].state = "cleared"
           /\ SlotOf(rooms', roomCode, role) = s
           /\ SelectSeq(UsersOf(rooms', roomCode), LAMBDA u : u.role # role)
                  = SelectSeq(UsersOf(rooms, roomCode), LAMBDA u : u.role # role)
           /\ Len(UsersOf(rooms', roomCode)) = Len(UsersOf(rooms, roomCode))
           /\ last'.emits = {}

C2_NeverEvicted ==
    \A h \in SocketIds :
        timeouts[h].state = "cleared" => onRemovedCalls[h] = 0 /\ ~EvictPending(h)

C3_NotBefore ==
    \A h \in SocketIds :
        timeouts[h].state = "armed"
        => /\ SlotOf(rooms, timeouts[h].roomCode, timeouts[h].role) = h
           /\ onRemovedCalls[h] = 0
           /\ ~EvictPending(h)

C3_AtExpiry ==
    \A h \in SocketIds :
        GraceExpired(h)
        => LET roomCode == timeouts[h].roomCode
               others == SelectSeq(UsersOf(rooms, roomCode),
                                   LAMBDA u : u.role # timeouts[h].role)
           IN /\ UsersOf(rooms', roomCode) = others
              /\ MapHas(rooms', roomCode) <=> others # <<>>
              /\ \A c \in MapKeys(rooms) \ {roomCode} :
                     UsersOf(rooms', c) = UsersOf(rooms, c)
              /\ \E i \in 1..Len(pending') :
                     pending'[i].op = "evict" /\ pending'[i].socketId = h
              /\ last'.emits = {}

C3_Once ==
    /\ \A h \in SocketIds :
           /\ onRemovedCalls[h] <= 1
           /\ (timeouts[h].state = "fired" /\ ~EvictPending(h))
                  => onRemovedCalls[h] = 1
    /\ last.step = "evict:done"
           => /\ onRemovedCalls[last.socketId] = 1
              /\ Cardinality(last.emits) = 1
              /\ \A e \in last.emits :
                     e.event = "peer-left" /\ e.toRoom = last.roomCode

\* The eviction of the slot the timer was armed for: while the grace-period
\* timer of a dropped handle is armed the slot still holds the handle and no
\* eviction callback has run for it; the step in which the timer expires
\* vacates exactly the participants of that role, deletes the room iff no
\* other participant remains, leaves the other rooms alone and emits nothing
\* yet; the eviction callback of a handle runs once, after the store write,
\* and broadcasts one peer-left to the room.
EvictionAtExpiry == [][C3_AtExpiry]_vars /\ []C3_NotBefore /\ []C3_Once

\* C3 (as claimed): every slot that still holds the handle of a dropped
\* connection when its grace period expires is vacated at expiry.
C3_EverySlotVacated ==
    [][\A h \in SocketIds, roomCode \in RoomCodes, role \in Roles :
          (GraceExpired(h) /\ SlotOf(rooms, roomCode, role) = h)
          => SlotOf(rooms', roomCode, role) = NoSocket]_vars

\* An eviction has completed: the room of the lone participant is gone and
\* its peer-left was just broadcast.
EvictionWitness ==
    /\ last.step = "evict:done"
    /\ onRemovedCalls[last.socketId] = 1
    /\ ~MapHas(rooms, last.roomCode)

\* C4 (as claimed): a join-room with a well-formed code for a room with no
\* participant in the initiator slot, the room absent or holding only a
\* responder, is refused with room-not-found.
C4_JoinNeedsInitiator ==
    [][\A s \in SocketIds, roomCode \in RoomCodes :
          (/\ JoinRoom(s, roomCode)
           /\ WellFormed(roomCode)
           /\ SlotOf(rooms, roomCode, "user1") = NoSocket)
          => last'.ack = "room-not-found"]_vars

\* C5 (as claimed): a join-room acknowledged with success emits exactly one
\* start-chat, addressed to the handle in the initiator slot and received by
\* no other connection.
C5_JoinNotifiesInitiator ==
    (last.step = "join-room:done" /\ last.ack = "ok")
    => \E e \in last.emits :
          /\ last.emits = {e}
          /\ e.event = "start-chat"
          /\ e.toSocket # NoSocket
          /\ e.toSocket = SlotOf(rooms, last.roomCode, "user1")
          /\ e.rcpt \subseteq {e.toSocket}

Restarts == {e \in last.emits : e.event = "restart-webrtc"}

BothHeld(roomCode) ==
    /\ SlotOf(rooms, roomCode, "user1") # NoSocket
    /\ SlotOf(rooms, roomCode, "user2") # NoSocket

SlotHandles(roomCode) ==
    {SlotOf(rooms, roomCode, "user1"), SlotOf(rooms, roomCode, "user2")} \ {NoSocket}

\* C6 (as claimed): a rejoin-room that leaves both slots occupied sends
\* restart-webrtc to the two handles the slots hold, and to no handle whose
\* connection has dropped and awaits its grace-period eviction.
C6_RestartNeverToDropped ==
    (last.step = "rejoin-room:done" /\ BothHeld(last.roomCode))
    => /\ {e.toSocket : e \in Restarts} = SlotHandles(last.roomCode)
       /\ \A e \in Restarts : timeouts[e.toSocket].state # "armed"

\* C6 (amended): when the store write of a rejoin-room completes,
\* restart-webrtc is addressed only to handles that hold the user1 or user2
\* slot of the room at that moment, never to a handle replaced in its slot;
\* it is addressed to both of them when the room the rejoin bound its slot in
\* is still in the registry with both slots occupied, and to nobody
\* otherwise; only an addressee whose connection is open receives it (a
\* dropped handle that awaits eviction still holds its slot and is
\* addressed).
C6_RestartToSlotHandles ==
    last.step = "rejoin-room:done"
    => /\ \A e \in Restarts :
              /\ e.toSocket \in SlotHandles(last.roomCode)
              /\ e.rcpt = {s \in {e.toSocket} : conn[s] = "open"}
       /\ (BothHeld(last.roomCode) /\ ~last.detached)
              => {e.toSocket : e \in Restarts} = SlotHandles(last.roomCode)
       /\ (~BothHeld(last.roomCode) \/ last.detached) => Restarts = {}

\* A rejoin completed in a room still in the registry with two different
\* handles in the slots, and both were addressed.
C6_Witness ==
    /\ last.step = "rejoin-room:done"
    /\ ~last.detached
    /\ BothHeld(last.roomCode)
    /\ Cardinality({e.toSocket : e \in Restarts}) = 2

\* C7: every room holds at most one participant per role.
C7_OneParticipantPerRole ==
    \A i \in 1..Len(rooms) :
        \A j, k \in 1..Len(rooms[i].users) :
            rooms[i].users[j].role = rooms[i].users[k].role => j = k

\* A room with both roles whose initiator slot was rebound to another handle
\* than the one the store holds.
C7_Witness ==
    /\ BothHeld(GoodCode)
    /\ GoodCode \in DOMAIN store
    /\ SocketOfRole(store[GoodCode], "user1") # NoSocket
    /\ SocketOfRole(store[GoodCode], "user1") # SlotOf(rooms, GoodCode, "user1")

C9_CreateStep ==
    \A s \in SocketIds, roomCode \in RoomCodes :
        (CreateRoom(s, roomCode) /\ WellFormed(roomCode) /\ MapHas(rooms, roomCode))
        => /\ Cardinality({i \in 1..Len(UsersOf(rooms', roomCode)) :
                  UsersOf(rooms', roomCode)[i].role = "user1"}) = 1
           /\ SlotOf(rooms', roomCode, "user1") = s
           /\ SlotOf(rooms', roomCode, "user2") = SlotOf(rooms, roomCode, "user2")
           /\ \E i \in 1..Len(pending') :
                  /\ pending'[i].op = "create-room"
                  /\ pending'[i].socketId = s
                  /\ pending'[i].roomCode = roomCode

C9_CreateAck ==
    /\ last.step = "create-room" => (last.ack = "invalid-code" /\ ~WellFormed(last.roomCode))
    /\ last.step = "create-room:done" => last.ack = "ok"

\* C9: a create-room with a well-formed code for a room that exists is
\* accepted, leaves exactly one initiator slot, holding the creating handle,
\* and leaves the responder slot as it was; create-room is refused only for
\* a malformed code and is acknowledged with success otherwise.
C9_CreateRebinds == [][C9_CreateStep]_vars /\ []C9_CreateAck

\* A create-room for a room that held both roles was acknowledged.
C9_Witness ==
    /\ last.step = "create-room:done"
    /\ last.ack = "ok"
    /\ BothHeld(last.roomCode)
    /\ SlotOf(rooms, last.roomCode, "user1") = last.socketId
    /\ SlotOf(rooms, last.roomCode, "user2") # last.socketId

\* C10: a leave-room from a handle that holds no slot of the room, or for a
\* room that does not exist, is handled like any other and changes no room.
C10_LeaveIdempotent ==
    [][\A s \in SocketIds, roomCode \in RoomCodes :
          (LeaveRoom(s, roomCode) /\ FindSocket(UsersOf(rooms, roomCode), s) = 0)
          => rooms' = rooms]_vars

\* Two leave-room of the same handle for the same room are suspended, and
\* the room is still there with its other participant.
C10_Witness ==
    /\ Len(pending) = 2
    /\ pending[1].op = "leave-room"
    /\ pending[2].op = "leave-room"
    /\ pending[1].socketId = pending[2].socketId
    /\ pending[1].roomCode = pending[2].roomCode
    /\ MapHas(rooms, pending[1].roomCode)
\* C11 (as claimed): the connection that sends leave-room is a member of the
\* room's broadcast group when the peer-left of its leave-room is emitted (a
\* leaver that was in the group is still in it), and that peer-left is
\* received by every open connection of the group.
C11_LeaverNotified ==
    /\ [][\A s \in SocketIds, roomCode \in RoomCodes :
             (LeaveRoom(s, roomCode) /\ roomCode \in subs[s])
             => roomCode \in subs'[s]]_vars
    /\ [](last.step \in {"leave-room", "leave-room:done"}
             => \A e \in last.emits :
                    /\ e.event = "peer-left"
                    /\ e.rcpt = {r \in SocketIds :
                                    conn[r] = "open" /\ last.roomCode \in subs[r]})
\* The step in which the handler suspended at position i resumes after a
\* store write that failed.
FailedWrite(i) ==
    \/ CreateRoomDone(i, FALSE)
    \/ JoinRoomDone(i, FALSE)
    \/ RejoinRoomDone(i, FALSE)
    \/ LeaveRoomDone(i, FALSE)
    \/ EvictDone(i, FALSE)

C13_FailedWriteStep ==
    \A i \in 1..MaxPending :
        FailedWrite(i)
        => /\ UNCHANGED <<rooms, disconnectTimers, timeouts>>
           /\ pending[i].op \in {"create-room", "join-room"}
                  => /\ last'.ack = "ok"
                     /\ conn[pending[i].socketId] = "open"
                            => pending[i].roomCode \in subs'[pending[i].socketId]
           /\ pending[i].op = "join-room"
                  => \A s \in SocketIds :
                         (\E e \in last'.emits : e.event = "start-chat" /\ e.toSocket = s)
                         <=> (~pending[i].detached
                              /\ SlotOf(rooms, pending[i].roomCode, "user1") = s)
           /\ pending[i].op = "rejoin-room"
                  => /\ \E e \in last'.emits :
                            e.event = "start-chat" /\ e.toRoom = pending[i].roomCode
                     /\ conn[pending[i].socketId] = "open"
                            => pending[i].roomCode \in subs'[pending[i].socketId]
           /\ pending[i].op \in {"leave-room", "evict"}
                  => \E e \in last'.emits :
                         e.event = "peer-left" /\ e.toRoom = pending[i].roomCode
           /\ pending[i].op = "evict"
                  => onRemovedCalls'[pending[i].socketId]
                         = onRemovedCalls[pending[i].socketId] + 1

\* C13: a handler that resumes after a failed store write finds and leaves
\* the rooms and the timers as the operation set them, and goes on as after
\* a write that succeeded: create-room and join-room are acknowledged with
\* success and subscribe the connection, join-room notifies the initiator,
\* rejoin-room subscribes and broadcasts start-chat, leave-room and the
\* eviction broadcast peer-left and the eviction callback runs.
C13_StoreFailureIgnored == [][C13_FailedWriteStep]_vars

\* A join-room was acknowledged with success and both slots are held in
\* memory while the store has no record of the room.
C13_Witness ==
    /\ last.step = "join-room:done"
    /\ last.ack = "ok"
    /\ BothHeld(last.roomCode)
    /\ last.roomCode \notin DOMAIN store
\* C14 (as claimed): once every store write issued has completed, the
\* record the store holds for a room code equals the room in memory, and there
\* is no record iff there is no room.
C14_StoreFollowsMemory ==
    pending = <<>>
    => \A roomCode \in RoomCodes :
           /\ roomCode \in DOMAIN store <=> MapHas(rooms, roomCode)
           /\ MapHas(rooms, roomCode) => store[roomCode] = MapUsers(rooms, roomCode)
\* C15 (as claimed): a restart of the process, all store writes completed,
\* brings back no room that was absent from memory before it: a join-room
\* for the code of such a room finds no room.
C15_RestartForgetsDeletedRooms ==
    [][Restart => \A roomCode \in RoomCodes :
                      ~MapHas(rooms, roomCode) => ~JoinFindsRoom(rooms', roomCode)]_vars

\* The transport reconnects while the controller is reconnecting.
Reconnects == TransportConnect /\ signaling.state = "reconnecting"

\* C16 as claimed: when the transport reconnects while the controller is
\* reconnecting, the controller sends rejoin-room with its role before any
\* other message, cancels the reconnect indicator, and its state becomes
\* room_joined.
C16_ReconnectJoinsRoom ==
    [][Reconnects =>
          /\ emitted'.sent # <<>>
          /\ emitted'.sent[1] = RejoinMessage(signaling)
          /\ ~signaling'.reconnectTimer
          /\ signaling'.state = "room_joined"]_vars

\* C16 amended: when the transport reconnects while the controller is
\* reconnecting, the controller sends rejoin-room with its role and nothing
\* else, cancels the reconnect indicator and resets its count, and stays
\* reconnecting; the server's start-chat is what makes it room_joined.
C16_ReconnectRejoins ==
    /\ [][Reconnects =>
             /\ emitted'.sent = <<RejoinMessage(signaling)>>
             /\ ~signaling'.reconnectTimer
             /\ signaling'.reconnectAttempts = 0
             /\ signaling'.state = "reconnecting"]_vars
    /\ [][StartChat => signaling'.state = "room_joined"]_vars

C16_Witness ==
    /\ browser.connected
    /\ signaling.state = "reconnecting"
    /\ emitted.sent = <<RejoinMessage(signaling)>>
    /\ emitted.events = <<Event("reconnected", 0)>>

\* C17: within one reconnecting episode the indicator reports the attempts
\* 1, 2, ... one by one and never more than maxReconnectAttempts; with the
\* last one it emits reconnect-failed, once in the episode, and stops; when
\* the transport reconnects first, the indicator is stopped without
\* reconnect-failed and its count is back at zero.
C17_IndicatorCounts ==
    /\ [][ReconnectTick =>
             LET n == signaling.reconnectAttempts + 1
             IN  /\ n <= maxReconnectAttempts
                 /\ emitted'.events[1] = Event("reconnect-attempt", n)
                 /\ IF n = maxReconnectAttempts
                    THEN /\ Len(emitted'.events) = 2
                         /\ emitted'.events[2] = Event("reconnect-failed", 0)
                         /\ ~signaling'.reconnectTimer
                    ELSE /\ Len(emitted'.events) = 1
                         /\ signaling'.reconnectTimer
                         /\ emitted'.failed = emitted.failed]_vars
    /\ [](emitted.failed <= 1)
    /\ [](emitted.failed = 1 => ~signaling.reconnectTimer)
    /\ [][Reconnects =>
             /\ ~signaling'.reconnectTimer
             /\ signaling'.reconnectAttempts = 0
             /\ emitted'.failed = emitted.failed
             /\ \A i \in DOMAIN emitted'.events :
                    emitted'.events[i].name # "reconnect-failed"]_vars
    /\ [](browser.connected =>
             ~signaling.reconnectTimer /\ signaling.reconnectAttempts = 0)

C17_Witness ==
    /\ emitted.failed = 1
    /\ emitted.events = <<Event("reconnect-attempt", maxReconnectAttempts),
                          Event("reconnect-failed", 0)>>

\* C18: after leave(), in whatever state it was called, neither the
\* heartbeat timer nor the reconnect indicator's timer is armed, so that no
\* reconnect-attempt and no reconnect-failed follows.
C18_LeaveCancelsTimers ==
    browser.closedByClient =>
        ~signaling.heartbeatInterval /\ ~signaling.reconnectTimer

\* C19: the first transport connect of a reloaded page sends rejoin-room and
\* neither create-room nor join-room.
C19_ReloadBypassesJoin ==
    [][(TransportConnect /\ browser.onceConnect) =>
          /\ emitted'.sent # <<>>
          /\ \A i \in DOMAIN emitted'.sent :
                 emitted'.sent[i].event = "rejoin-room"]_vars

\* The payloads in a sequence.
Payloads(seq) == {seq[i] : i \in DOMAIN seq}

\* Payloads were handed to the channel in the order of their send() calls,
\* none twice.
DeliveredInOrder ==
    \A i, j \in DOMAIN tally.delivered :
        i < j => tally.delivered[i] < tally.delivered[j]

\* C12: payloads reach the peer in the order send() was called, and no
\* payload of a send() call is lost: each has been handed to an open channel
\* or still waits in the retry queue for the channel to open, also after the
\* link went down and came back.
C12_QueueInOrderNoLoss ==
    /\ DeliveredInOrder
    /\ \A data \in 1..tally.sends :
           data \in Payloads(tally.delivered) \cup Payloads(peer.retryQueue)

\* C20: between two cleanups at most one peer link is created, also when
\* setup() is called again while an earlier call is suspended at its await.
C20_OneLinkPerCleanup == tally.created <= 1

C23_TwoParticipantsInRole ==
    \A i \in 1..Len(rooms) :
        /\ Len(rooms[i].users) <= 2
        /\ \A j \in 1..Len(rooms[i].users) : rooms[i].users[j].role \in Roles

\* C30: the code of every room of the registry, and of every slot a
\* grace-period timer is armed for, is six alphanumeric characters, also
\* after rejoin-room messages with other codes.
C30_EveryCodeWellFormed ==
    /\ \A i \in 1..Len(rooms) : WellFormed(rooms[i].roomCode)
    /\ \A h \in SocketIds :
           timeouts[h].state = "armed" => WellFormed(timeouts[h].roomCode)

\* C26: every room of the registry has at least one participant, after
\* create, join, rejoin, leave and eviction, and while their store writes
\* are under way.
C26_NoEmptyRoom == \A i \in 1..Len(rooms) : rooms[i].users # <<>>

\* The last participant of a room was evicted and the room went with it.
C26_Witness ==
    /\ rooms = <<>>
    /\ \E h \in SocketIds : onRemovedCalls[h] = 1

\* C27: once the grace period of a dropped connection has expired and its
\* eviction has completed, no slot of any room holds the connection's
\* handle, also when the handle held both roles of a room.
C27_DroppedHandleGone ==
    \A h \in SocketIds :
        (conn[h] = "closed" /\ timeouts[h].state = "fired" /\ ~EvictPending(h))
        => \A i \in 1..Len(rooms) : FindSocket(rooms[i].users, h) = 0

\* C28: when the eviction callback broadcasts peer-left for (room, role),
\* the slot of that role is vacant.
C28_PeerLeftOnlyWhenVacant ==
    [][\A i \in 1..MaxPending :
          EvictDone(i, TRUE)
          => SlotOf(rooms, pending[i].roomCode, pending[i].role) = NoSocket]_vars

\* C29: every open connection in the broadcast group of a room holds a slot
\* of that room.
C29_SubscribedHoldsSlot ==
    \A s \in SocketIds, roomCode \in RoomCodes :
        (conn[s] = "open" /\ roomCode \in subs[s])
        => FindSocket(UsersOf(rooms, roomCode), s) # 0

\* C24: when the link the PeerManager holds reports connected while the
\* session controller is room_joined, the controller's state becomes
\* peer_connected.
C24_PeerConnectedReached ==
    [][\A k \in 1..MaxLinks :
          (IceStateChange(k, "connected")
           /\ peer.peerConnection = k
           /\ signaling.state = "room_joined")
          => signaling'.state = "peer_connected"]_vars

\* The session controller is never peer_connected: no handler assigns it.
PeerConnectedNeverReached == signaling.state # "peer_connected"

\* A setup() call that was suspended when cleanup() or restart() ran
\* installs no link when it resumes.
StaleSetupIgnored ==
    [][SetupResume(TRUE) => UNCHANGED <<peer, links>>]_vars

\* An ICE restart that was suspended when its link was torn down sends
\* nothing and triggers no restart when it resumes.
StaleIceRestartIgnored ==
    [][\A k \in 1..MaxLinks :
          (IceRestartResume(k, TRUE) /\ links[k].closed)
          => /\ UNCHANGED <<peer, links>>
             /\ emitted'.sent = <<>>]_vars

\* C25: a continuation of setup() or of an ICE restart that resumes after
\* cleanup() or restart() tore its link down is ignored: it installs no
\* link, sends no message and triggers no restart.
C25_StaleContinuationIgnored == StaleSetupIgnored /\ StaleIceRestartIgnored

\* No rejoin-room and no restart-webrtc is in flight or being handled.
Settled ==
    /\ wire = NoTraffic
    /\ \A i \in 1..Len(pending) : pending[i].op # "rejoin-room"

\* While a rejoin-room or a restart-webrtc is in flight the exchange never
\* comes to rest: every state of the renegotiation has one pending.
RenegotiationNeverSettles == ~Settled

\* C21: after a rejoin-room that leaves both slots held, with both clients
\* connected, every message received and every write completed, the system
\* reaches a state in which no rejoin-room and no restart-webrtc is pending.
C21_RenegotiationTerminates == <>Settled
====
